---- MODULE Spec2Model ----
(***************************************************************************)
(* The signal evaluation engine of the trading alert system: the           *)
(* indicators, the pattern detector, the BUY/SELL evaluators and           *)
(* process_symbol with its processed_candles set, in its two copies, the   *)
(* TradingEngine class (src/src/core) and the single-file app.py.          *)
(*                                                                         *)
(* Prices are exact rationals n/d (d > 0); the code computes in binary     *)
(* floating point, and only the order and the sign of its results are read *)
(* here.  A Python value is a record [t, n, d]: t = "num" a number n/d,    *)
(* "nan" a float NaN (what pandas holds for a missing field), "none"       *)
(* Python's None, "str" a non-numeric string.                              *)
(***************************************************************************)
EXTENDS Integers, Sequences, FiniteSets, TLC

\* ------------------------------------------------------------------ bounds
MaxDay == 2
MaxMinute == 1
MaxCalls == 2
MaxLevel == 3
MaxPrice == 4
MaxBars == 3
MaxBoundaries == 3

\* ------------------------------------------------------- program constants
LookbackDays == 2
BoundaryMinutes == 5        \* now_ist.minute % 5 == 0
BoundarySeconds == 30       \* now_ist.second < 30
ShortSleep == 30            \* time.sleep(30) after a boundary was processed
LongSleep == 60             \* time.sleep(60) otherwise

\* ------------------------------------------------------------ Python values
Rat(n, d) == [t |-> "num", n |-> n, d |-> d]
Num(n) == Rat(n, 1)
NaN == [t |-> "nan", n |-> 0, d |-> 1]
None == [t |-> "none", n |-> 0, d |-> 1]
Str == [t |-> "str", n |-> 0, d |-> 1]

IsNum(v) == v.t = "num"
IsFloat(v) == v.t \in {"num", "nan"}

\* bool(v): None and 0 are falsy; NaN and a non-empty string are truthy.
Truthy(v) == CASE v.t = "num" -> v.n # 0
               [] v.t = "none" -> FALSE
               [] OTHER -> TRUE

\* a > b on floats; any comparison with NaN is False.
Gt(a, b) == IsNum(a) /\ IsNum(b) /\ a.n * b.d > b.n * a.d
Lt(a, b) == Gt(b, a)
Ge(a, b) == IsNum(a) /\ IsNum(b) /\ a.n * b.d >= b.n * a.d
Le(a, b) == Ge(b, a)
Eq(a, b) == IF IsNum(a) /\ IsNum(b) THEN a.n * b.d = b.n * a.d
            ELSE a.t = b.t /\ a.t # "nan"

\* a - b, a / b (b # 0), k * a on floats; NaN propagates.
Sub(a, b) == IF IsNum(a) /\ IsNum(b) THEN Rat(a.n * b.d - b.n * a.d, a.d * b.d) ELSE NaN
Div(a, b) == IF IsNum(a) /\ IsNum(b)
             THEN IF b.n > 0 THEN Rat(a.n * b.d, a.d * b.n)
                             ELSE Rat(-(a.n * b.d), a.d * (-b.n))
             ELSE NaN
Add(a, b) == IF IsNum(a) /\ IsNum(b) THEN Rat(a.n * b.d + b.n * a.d, a.d * b.d) ELSE NaN
Mul(a, b) == IF IsNum(a) /\ IsNum(b) THEN Rat(a.n * b.n, a.d * b.d) ELSE NaN
Twice(a) == Mul(Num(2), a)

\* ------------------------------------------------------- pattern detection
\* patterns.py detect_pattern: the isinstance screen, then the four rules in order.
GreenHammerRule(o, h, l, c) ==
    Gt(c, o) /\ Gt(Sub(o, l), Twice(Sub(c, o))) /\ Ge(h, c) /\ Gt(Sub(o, l), Sub(h, c))

\* A variant of the Red Hammer rule without the test of the bar's direction.
RedHammerRuleAnyDirection(o, h, l, c) ==
    Gt(Sub(c, l), Twice(Sub(o, c))) /\ Ge(h, o) /\ Gt(Sub(c, l), Sub(h, o))

RedHammerRule(o, h, l, c) ==
    Lt(c, o) /\ Gt(Sub(c, l), Twice(Sub(o, c))) /\ Ge(h, o) /\ Gt(Sub(c, l), Sub(h, o))

InvertedHammerRule(o, h, l, c) ==
    Lt(c, o) /\ Gt(Sub(h, o), Twice(Sub(o, c))) /\ Le(l, c) /\ Gt(Sub(h, o), Sub(c, l))

InvertedGreenHammerRule(o, h, l, c) ==
    Gt(c, o) /\ Gt(Sub(h, c), Twice(Sub(c, o))) /\ Le(l, o) /\ Gt(Sub(h, c), Sub(o, l))

\* A variant that takes a lower shadow of exactly twice the body for a Green Hammer.
PatternRulesLooseShadow(o, h, l, c) ==
    IF Gt(c, o) /\ Ge(Sub(o, l), Twice(Sub(c, o))) /\ Ge(h, c) /\ Gt(Sub(o, l), Sub(h, c))
    THEN "Green_Hammer"
    ELSE IF RedHammerRule(o, h, l, c) THEN "Red_Hammer"
    ELSE IF InvertedHammerRule(o, h, l, c) THEN "Inverted_Hammer"
    ELSE IF InvertedGreenHammerRule(o, h, l, c) THEN "Inverted_Green_Hammer"
    ELSE "None"

PatternRules(o, h, l, c) ==
    IF GreenHammerRule(o, h, l, c) THEN "Green_Hammer"
    ELSE IF RedHammerRule(o, h, l, c) THEN "Red_Hammer"
    ELSE IF InvertedHammerRule(o, h, l, c) THEN "Inverted_Hammer"
    ELSE IF InvertedGreenHammerRule(o, h, l, c) THEN "Inverted_Green_Hammer"
    ELSE "None"

detect_pattern(ohlc) ==
    IF ~(\A x \in {ohlc.open, ohlc.high, ohlc.low, ohlc.close} : IsFloat(x))
    THEN "None"
    ELSE PatternRules(ohlc.open, ohlc.high, ohlc.low, ohlc.close)

\* app.py detect_candlestick_patterns: no screen; a comparison or a subtraction on a
\* str or None operand raises TypeError, which the except clause turns into None.
detect_candlestick_patterns(ohlc) ==
    IF ~(\A x \in {ohlc.open, ohlc.high, ohlc.low, ohlc.close} : IsFloat(x))
    THEN "None"
    ELSE PatternRules(ohlc.open, ohlc.high, ohlc.low, ohlc.close)

is_bullish_pattern(pattern) == pattern \in {"Green_Hammer", "Red_Hammer"}
is_bearish_pattern(pattern) == pattern \in {"Inverted_Hammer", "Inverted_Green_Hammer"}

\* ------------------------------------------------------- relative strength
\* indicators.py compute_relative_strength: the truthiness guard, then sc / rc - 1;
\* a TypeError of the division (a str operand) is caught and gives None.
\* A variant that divides the reference by the symbol.
compute_relative_strength_inverted(symbol_close, reference_close) ==
    IF Truthy(symbol_close) /\ Truthy(reference_close) /\ ~Eq(reference_close, Num(0))
    THEN IF IsFloat(symbol_close) /\ IsFloat(reference_close)
         THEN Sub(Div(reference_close, symbol_close), Num(1))
         ELSE None
    ELSE None

compute_relative_strength(symbol_close, reference_close) ==
    IF Truthy(symbol_close) /\ Truthy(reference_close) /\ ~Eq(reference_close, Num(0))
    THEN IF IsFloat(symbol_close) /\ IsFloat(reference_close)
         THEN Sub(Div(symbol_close, reference_close), Num(1))
         ELSE None
    ELSE None

\* ------------------------------------------------------------------- bars
\* A bar is [day, minute, open, high, low, close, volume]; a DataFrame is a sequence of bars.
BarBefore(a, b) == a.day < b.day \/ (a.day = b.day /\ a.minute < b.minute)

\* df.sort_values('datetime') on bars of distinct timestamps.
RECURSIVE SortByDatetime(_)
SortByDatetime(S) ==
    IF S = {} THEN <<>>
    ELSE LET first == CHOOSE b \in S : \A x \in S \ {b} : BarBefore(b, x)
         IN <<first>> \o SortByDatetime(S \ {first})

Rows(df) == {df[i] : i \in 1..Len(df)}
Filter(df, Keep(_)) == SelectSeq(df, Keep)

\* Series.max() / Series.min(): NaN is skipped; all NaN gives NaN.
SeriesMax(vals) ==
    LET nums == {v \in vals : IsNum(v)}
    IN IF nums = {} THEN NaN ELSE CHOOSE v \in nums : \A w \in nums : Ge(v, w)
SeriesMin(vals) ==
    LET nums == {v \in vals : IsNum(v)}
    IN IF nums = {} THEN NaN ELSE CHOOSE v \in nums : \A w \in nums : Le(v, w)

\* A variant that falls back on all the bars when none is dated before today.
compute_previous_day_high_low_fallback(candles_df, today) ==
    IF candles_df = <<>> THEN <<None, None>>
    ELSE LET IsPrev(b) == b.day < today
             prev_day_data == IF Filter(candles_df, IsPrev) = <<>> THEN candles_df
                              ELSE Filter(candles_df, IsPrev)
             latest_prev_day == CHOOSE d \in {b.day : b \in Rows(prev_day_data)} :
                                    \A b \in Rows(prev_day_data) : b.day <= d
             prev_day_candles == {b \in Rows(prev_day_data) : b.day = latest_prev_day}
         IN << SeriesMax({b.high : b \in prev_day_candles}),
               SeriesMin({b.low : b \in prev_day_candles}) >>

\* indicators.py compute_previous_day_high_low, with `today` the date it reads from the
\* clock.  A str among several values makes max()/min() raise TypeError (caught: None,
\* None); a lone value is returned as it is.
compute_previous_day_high_low(candles_df, today) ==
    IF candles_df = <<>> THEN <<None, None>>
    ELSE LET IsPrev(b) == b.day < today
             prev_day_data == Filter(candles_df, IsPrev)
         IN IF prev_day_data = <<>> THEN <<None, None>>
            ELSE LET latest_prev_day == CHOOSE d \in {b.day : b \in Rows(prev_day_data)} :
                                            \A b \in Rows(prev_day_data) : b.day <= d
                     prev_day_candles == {b \in Rows(prev_day_data) : b.day = latest_prev_day}
                     highs == {b.high : b \in prev_day_candles}
                     lows == {b.low : b \in prev_day_candles}
                     Mixed(vals) == Cardinality(prev_day_candles) > 1 /\ \E v \in vals : ~IsFloat(v)
                     Lone(vals) == CHOOSE v \in vals : TRUE
                 IN IF Mixed(highs) \/ Mixed(lows) THEN <<None, None>>
                    ELSE << IF Cardinality(prev_day_candles) = 1 THEN Lone(highs) ELSE SeriesMax(highs),
                            IF Cardinality(prev_day_candles) = 1 THEN Lone(lows) ELSE SeriesMin(lows) >>

\* typical_price * volume of one bar.
PriceVolume(b) == Mul(Div(Add(Add(b.high, b.low), b.close), Num(3)), Num(b.volume))

\* Series.cumsum().iloc[-1]: NaN entries are skipped, but a NaN in the last row stays NaN.
RECURSIVE SumSkipNaN(_)
SumSkipNaN(vals) ==
    IF vals = <<>> THEN Num(0)
    ELSE LET rest == SumSkipNaN(Tail(vals))
         IN IF IsNum(Head(vals)) THEN Add(Head(vals), rest) ELSE rest
CumSumLast(vals) == IF IsNum(vals[Len(vals)]) THEN SumSkipNaN(vals) ELSE NaN

\* A variant that starts the accumulation with the anchor price at volume 1.
compute_avwap_from_anchor_anchored(candles_df, anchor_price, anchor_type, today) ==
    IF candles_df = <<>> THEN None
    ELSE LET IsToday(b) == b.day = today
             today_data == Filter(candles_df, IsToday)
         IN IF today_data = <<>> THEN None
            ELSE IF \E b \in Rows(today_data) : ~IsFloat(b.high) \/ ~IsFloat(b.low) \/ ~IsFloat(b.close)
            THEN None
            ELSE LET price_volume == [i \in 1..Len(today_data) |-> PriceVolume(today_data[i])]
                     volume == [i \in 1..Len(today_data) |-> Num(today_data[i].volume)]
                     cum_price_volume == CumSumLast(price_volume)
                     cum_volume == CumSumLast(volume)
                 IN IF Gt(cum_volume, Num(0))
                    THEN IF IsNum(anchor_price)
                         THEN Div(Add(cum_price_volume, anchor_price), Add(cum_volume, Num(1)))
                         ELSE Div(cum_price_volume, cum_volume)
                    ELSE None

\* A variant without the filter on today's date.
compute_avwap_from_anchor_all_days(candles_df, anchor_price, anchor_type, today) ==
    IF candles_df = <<>> THEN None
    ELSE LET today_data == candles_df
         IN IF \E b \in Rows(today_data) : ~IsFloat(b.high) \/ ~IsFloat(b.low) \/ ~IsFloat(b.close)
            THEN None
            ELSE LET price_volume == [i \in 1..Len(today_data) |-> PriceVolume(today_data[i])]
                     volume == [i \in 1..Len(today_data) |-> Num(today_data[i].volume)]
                     cum_price_volume == CumSumLast(price_volume)
                     cum_volume == CumSumLast(volume)
                 IN IF Gt(cum_volume, Num(0)) THEN Div(cum_price_volume, cum_volume) ELSE None

\* A variant that answers 0 when no volume was traded.
compute_avwap_from_anchor_zero(candles_df, anchor_price, anchor_type, today) ==
    IF candles_df = <<>> THEN None
    ELSE LET IsToday(b) == b.day = today
             today_data == Filter(candles_df, IsToday)
         IN IF today_data = <<>> THEN None
            ELSE IF \E b \in Rows(today_data) : ~IsFloat(b.high) \/ ~IsFloat(b.low) \/ ~IsFloat(b.close)
            THEN None
            ELSE LET price_volume == [i \in 1..Len(today_data) |-> PriceVolume(today_data[i])]
                     volume == [i \in 1..Len(today_data) |-> Num(today_data[i].volume)]
                     cum_price_volume == CumSumLast(price_volume)
                     cum_volume == CumSumLast(volume)
                 IN IF Gt(cum_volume, Num(0)) THEN Div(cum_price_volume, cum_volume) ELSE Num(0)

\* indicators.py compute_avwap_from_anchor, with `today` the date it reads from the clock.
\* A str in today's high, low or close raises TypeError in the column arithmetic (caught:
\* None).  anchor_price and anchor_type are only logged.
compute_avwap_from_anchor(candles_df, anchor_price, anchor_type, today) ==
    IF candles_df = <<>> THEN None
    ELSE LET IsToday(b) == b.day = today
             today_data == Filter(candles_df, IsToday)
         IN IF today_data = <<>> THEN None
            ELSE IF \E b \in Rows(today_data) : ~IsFloat(b.high) \/ ~IsFloat(b.low) \/ ~IsFloat(b.close)
            THEN None
            ELSE LET price_volume == [i \in 1..Len(today_data) |-> PriceVolume(today_data[i])]
                     volume == [i \in 1..Len(today_data) |-> Num(today_data[i].volume)]
                     cum_price_volume == CumSumLast(price_volume)
                     cum_volume == CumSumLast(volume)
                 IN IF Gt(cum_volume, Num(0)) THEN Div(cum_price_volume, cum_volume) ELSE None

\* -------------------------------------------------------- signal evaluation
\* `level and close > level`: a TypeError when the comparison meets a str or None operand.
CmpRaises(level, close) == Truthy(level) /\ ~(IsFloat(level) /\ IsFloat(close))

\* A variant whose second branch reports the high anchor's level.
evaluate_buy_setup_wrong_level(close, avwap_high, avwap_low, rs, pattern) ==
    LET first == Truthy(avwap_high) /\ Gt(close, avwap_high)
        second == ~first /\ Truthy(avwap_low) /\ Gt(close, avwap_low)
        avwap_used == IF first \/ second THEN avwap_high ELSE None
        measure == IF first THEN Div(Sub(close, avwap_high), avwap_high)
                   ELSE IF second THEN Div(Sub(close, avwap_low), avwap_low) ELSE None
    IN [is_buy |-> /\ (first \/ second)
                   /\ Truthy(measure) /\ Gt(measure, Num(0))
                   /\ Truthy(rs) /\ Gt(rs, Num(0))
                   /\ is_bullish_pattern(pattern),
        avwap_used |-> avwap_used, measure |-> measure, raised |-> FALSE]

\* trading_engine.py / app.py evaluate_buy_setup: [is_buy, avwap_used, measure, raised].
evaluate_buy_setup(close, avwap_high, avwap_low, rs, pattern) ==
    LET first == Truthy(avwap_high) /\ Gt(close, avwap_high)
        second == ~first /\ Truthy(avwap_low) /\ Gt(close, avwap_low)
        cmp_above_avwap == first \/ second
        avwap_used == IF first THEN avwap_high ELSE IF second THEN avwap_low ELSE None
        measure == IF cmp_above_avwap THEN Div(Sub(close, avwap_used), avwap_used) ELSE None
        raised == \/ CmpRaises(avwap_high, close)
                  \/ (~first /\ CmpRaises(avwap_low, close))
                  \/ (Truthy(rs) /\ ~IsFloat(rs))
    IN [is_buy |-> /\ ~raised
                   /\ cmp_above_avwap
                   /\ Truthy(measure) /\ Gt(measure, Num(0))
                   /\ Truthy(rs) /\ Gt(rs, Num(0))
                   /\ is_bullish_pattern(pattern),
        avwap_used |-> avwap_used, measure |-> measure, raised |-> raised]

\* A variant whose body is the BUY evaluation, renamed.
evaluate_sell_setup_mirrors_buy(close, avwap_high, avwap_low, rs, pattern) ==
    LET first == Truthy(avwap_high) /\ Gt(close, avwap_high)
        second == ~first /\ Truthy(avwap_low) /\ Gt(close, avwap_low)
        cmp_above_avwap == first \/ second
        avwap_used == IF first THEN avwap_high ELSE IF second THEN avwap_low ELSE None
        measure == IF cmp_above_avwap THEN Div(Sub(close, avwap_used), avwap_used) ELSE None
    IN [is_sell |-> /\ cmp_above_avwap
                    /\ Truthy(measure) /\ Gt(measure, Num(0))
                    /\ Truthy(rs) /\ Gt(rs, Num(0))
                    /\ is_bullish_pattern(pattern),
        avwap_used |-> avwap_used, measure |-> measure, raised |-> FALSE]

\* A variant that asks for a positive relative strength, as the BUY side does.
evaluate_sell_setup_rs_positive(close, avwap_high, avwap_low, rs, pattern) ==
    LET first == Truthy(avwap_high) /\ Lt(close, avwap_high)
        second == ~first /\ Truthy(avwap_low) /\ Lt(close, avwap_low)
        cmp_below_avwap == first \/ second
        avwap_used == IF first THEN avwap_high ELSE IF second THEN avwap_low ELSE None
        measure == IF cmp_below_avwap THEN Div(Sub(avwap_used, close), avwap_used) ELSE None
    IN [is_sell |-> /\ cmp_below_avwap
                    /\ Truthy(measure) /\ Gt(measure, Num(0))
                    /\ Truthy(rs) /\ Gt(rs, Num(0))
                    /\ is_bearish_pattern(pattern),
        avwap_used |-> avwap_used, measure |-> measure, raised |-> FALSE]

\* trading_engine.py / app.py evaluate_sell_setup: [is_sell, avwap_used, measure, raised].
evaluate_sell_setup(close, avwap_high, avwap_low, rs, pattern) ==
    LET first == Truthy(avwap_high) /\ Lt(close, avwap_high)
        second == ~first /\ Truthy(avwap_low) /\ Lt(close, avwap_low)
        cmp_below_avwap == first \/ second
        avwap_used == IF first THEN avwap_high ELSE IF second THEN avwap_low ELSE None
        measure == IF cmp_below_avwap THEN Div(Sub(avwap_used, close), avwap_used) ELSE None
        raised == \/ CmpRaises(avwap_high, close)
                  \/ (~first /\ CmpRaises(avwap_low, close))
                  \/ (Truthy(rs) /\ ~IsFloat(rs))
    IN [is_sell |-> /\ ~raised
                    /\ cmp_below_avwap
                    /\ Truthy(measure) /\ Gt(measure, Num(0))
                    /\ Truthy(rs) /\ Lt(rs, Num(0))
                    /\ is_bearish_pattern(pattern),
        avwap_used |-> avwap_used, measure |-> measure, raised |-> raised]

\* ------------------------------------------------------------ bar source
\* The configured symbols (main.py symbols_config, app.py symbols_config).
Symbols == {"NIFTY", "BANKNIFTY"}

Days == 1..MaxDay
Minutes == 0..MaxMinute

Bar(day, minute, o, h, l, c, v) ==
    [day |-> day, minute |-> minute, open |-> o, high |-> h, low |-> l, close |-> c, volume |-> v]

\* The bars the broker may hold for the symbol when asked on date t at minute m: none or
\* one bar of an earlier day, and none or one bar of date t stamped no later than m.
\* Each shape is <<open, high, low, close, volume>>.
DedupShapes ==
    { <<Num(4), Num(5), Num(1), Num(5), 2>>,     \* Green_Hammer, close above its typical price
      <<Num(2), Num(5), Num(1), Num(1), 2>>,     \* Inverted_Hammer, close below its typical price
      <<Num(2), Num(3), Num(2), Num(3), 2>> }    \* no pattern

AllShapes ==
    DedupShapes \cup
    { <<Num(4), Num(5), Num(1), Num(5), 0>>,     \* Green_Hammer with volume 0
      <<Num(4), Num(5), Num(1), NaN, 2>>,        \* close missing
      <<Str, Num(5), Num(1), Num(5), 2>>,        \* open non-numeric
      <<Num(4), Str, Num(1), Num(5), 2>> }       \* high non-numeric

PrevBar(d) == Bar(d, 0, Num(3), Num(6), Num(1), Num(3), 1)

TodayChoices(shapes, t, m) ==
    {{Bar(t, mm, s[1], s[2], s[3], s[4], s[5])} : mm \in 0..m, s \in shapes}

\* pool = "dedup": no bars at all, or yesterday's bar and one of today's, numeric.
\* pool = "days": yesterday's bar and a Green_Hammer of today.
\* pool = "shapes": every combination, with missing and non-numeric fields.
SymbolMarket(pool, t, m) ==
    IF pool = "dedup"
    THEN {{}} \cup {{PrevBar(t - 1)} \cup q : q \in TodayChoices(DedupShapes, t, m)}
    ELSE IF pool = "days"
    THEN {{PrevBar(t - 1), Bar(t, 0, Num(4), Num(5), Num(1), Num(5), 2)}}
    ELSE {p \cup q : p \in {{}, {PrevBar(t - 1)}, {PrevBar(t - 3)}},
                     q \in {{}} \cup TodayChoices(AllShapes, t, m)}

\* The benchmark's bars: none, or one bar of date t whose close is a number, 0, missing
\* in a float column (NaN) or missing in an object column (None).
RefBar(t, c) == Bar(t, 0, c, c, c, c, 1)
RefMarket(pool, t) ==
    IF pool \in {"dedup", "days"}
    THEN {{RefBar(t, Num(2))}}
    ELSE {{}} \cup {{RefBar(t, c)} : c \in {Num(2), Num(0), NaN, None}}

\* A variant that asks the broker for the last seven days.
fetch_historical_data_week(market, to_date, fails) ==
    LET from_date == to_date - 7
        historical_data == {b \in market : from_date <= b.day /\ b.day <= to_date}
    IN IF fails \/ historical_data = {} THEN <<>> ELSE SortByDatetime(historical_data)

\* zerodha_service.py fetch_historical_data / app.py fetch_5min_candles: the broker is asked
\* for [to_date - lookback_days, to_date]; no data, a failed request or a service that is
\* not connected give an empty DataFrame; otherwise the rows sorted by datetime.
fetch_historical_data(market, to_date, fails) ==
    LET from_date == to_date - LookbackDays
        historical_data == {b \in market : from_date <= b.day /\ b.day <= to_date}
    IN IF fails \/ historical_data = {} THEN <<>> ELSE SortByDatetime(historical_data)

\* -------------------------------------------------------------------- state
VARIABLES
    pool,               \* which bars the broker may hold ("dedup", "shapes", "days"), or
                        \* which part runs alone ("eval", "pattern", "rs", "avwap", "loop")
    impl,               \* "engine": TradingEngine (src/src/core); "app": app.py
    now,                \* the clock in the configured timezone: [day, minute]
    processed_candles,  \* the dedup set
    emails,             \* what was handed to the email sink, in order
    csv_rows,           \* what was handed to the CSV log, in order
    call,               \* the process_symbol call in flight: its position and its locals
    calls,              \* process_symbol calls started so far
    probe,              \* one application of an evaluator: its arguments and its result
    loop                \* the monitoring loop: its position, its clock, its invocations

vars == <<pool, impl, now, processed_candles, emails, csv_rows, call, calls, probe, loop>>

\* strftime('%Y%m%d') and strftime('%H%M') of a clock reading, as tokens.
DateStr(day) == "D" \o ToString(day)
HhmmStr(minute) == "M" \o ToString(minute)

\* f"{symbol_name}_{current_time.strftime('%Y%m%d_%H%M')}", as the sequence of the pieces
\* that split('_') gives.
SplitUnderscore(symbol_name) ==
    IF symbol_name = "NIFTY_50" THEN <<"NIFTY", "50">> ELSE <<symbol_name>>
\* A variant whose key holds the minute only, not the symbol.
CandleIdNoSymbol(symbol_name, t) ==
    <<DateStr(t.day), HhmmStr(t.minute)>>

CandleId(symbol_name, t) ==
    SplitUnderscore(symbol_name) \o <<DateStr(t.day), HhmmStr(t.minute)>>

NoEval == [is_buy |-> FALSE, avwap_used |-> None, measure |-> None, raised |-> FALSE]
NoSell == [is_sell |-> FALSE, avwap_used |-> None, measure |-> None, raised |-> FALSE]

Idle ==
    [pc |-> "idle", symbol_name |-> "", candle_id |-> <<>>, at_start |-> {},
     symbol_data |-> <<>>, ref_data |-> <<>>, fetched |-> FALSE,
     prev_today |-> 0, prev |-> <<None, None>>, avwap_high |-> None, avwap_low |-> None,
     pattern |-> "None", rs_value |-> None, buy |-> NoEval, sell |-> NoSell,
     alert_generated |-> FALSE, email_ok |-> TRUE, csv_ok |-> TRUE, stage |-> "", ret |-> "pending"]

\* The monitoring loop before it is started.  t is the clock in seconds since a 5-minute
\* boundary; invoked lists the process_symbol calls as <<minute of the check, symbol>>.
NoLoop == [pc |-> "off", t |-> 0, started |-> 0, boundary |-> 0, i |-> 1, invoked |-> <<>>]

NoProbe ==
    [pc |-> "off", close |-> None, avwap_high |-> None, avwap_low |-> None, rs |-> None,
     pattern |-> "None", buy |-> NoEval, sell |-> NoSell,
     ohlc |-> [open |-> None, high |-> None, low |-> None, close |-> None], detected |-> "None",
     reference_close |-> None, rs_out |-> None,
     candles_df |-> <<>>, avwap_out |-> None]

InitWith(p) ==
    /\ pool = p
    /\ probe = NoProbe
    /\ impl \in {"engine", "app"}
    /\ now = [day |-> 1, minute |-> 0]
    /\ processed_candles = {}
    /\ emails = <<>>
    /\ csv_rows = <<>>
    /\ call = Idle
    /\ calls = 0
    /\ loop = NoLoop

\* Several calls, on the bars that decide deduplication.
Init == InitWith("dedup")

\* One call, on every shape of bars.
InitCall == InitWith("shapes")

\* Several calls over the days, on a symbol of the configuration and on one whose name
\* holds an underscore.
InitDays == InitWith("days")

\* pool = "dedup": MaxCalls calls within one day; pool = "shapes": one call, over the
\* days; pool = "days": MaxCalls calls over the days.
\* symbol_name is any str (engine 118); the loops pass the names of symbols_config.
CallableSymbols == IF pool = "days" THEN {"NIFTY", "NIFTY_50"} ELSE Symbols
CallLimit == IF pool = "shapes" THEN 1 ELSE MaxCalls
LastDay == IF pool = "dedup" THEN 1 ELSE MaxDay

\* ----------------------------------------------------------- process_symbol
\* `return False` / `return alert_generated` at a named place of the function.
Finish(c, stage, ret) == [c EXCEPT !.pc = "done", !.stage = stage, !.ret = ret]

\* A variant in which the exception leaves the function.
Propagate(c) == Finish(c, "exception", "raised")

\* `except Exception as e: logger.error(...); return False`
Except(c) == Finish(c, "exception", "False")

PyBool(b) == IF b THEN "True" ELSE "False"

\* A variant without the dedup test.
BeginNoSkip(symbol_name) ==
    /\ call.pc = "idle"
    /\ calls < CallLimit
    /\ calls' = calls + 1
    /\ call' = [Idle EXCEPT !.symbol_name = symbol_name, !.candle_id = CandleId(symbol_name, now),
                            !.at_start = processed_candles, !.pc = "fetch"]
    /\ UNCHANGED <<pool, impl, now, processed_candles, emails, csv_rows, probe, loop>>

\* The clock read, the candle id and the dedup test (engine 135-141, app 463-469).
Begin(symbol_name) ==
    /\ call.pc = "idle"
    /\ calls < CallLimit
    /\ calls' = calls + 1
    /\ LET candle_id == CandleId(symbol_name, now)
           c == [Idle EXCEPT !.symbol_name = symbol_name, !.candle_id = candle_id,
                             !.at_start = processed_candles]
       IN call' = IF candle_id \in processed_candles
                  THEN Finish(c, "skipped", "False")
                  ELSE [c EXCEPT !.pc = "fetch"]
    /\ UNCHANGED <<pool, impl, now, processed_candles, emails, csv_rows, probe, loop>>

\* The two fetches and the emptiness test (engine 146-151, app 474-479).
Fetch ==
    /\ call.pc = "fetch"
    /\ \E sm \in SymbolMarket(pool, now.day, now.minute), rm \in RefMarket(pool, now.day),
          sf \in BOOLEAN, rf \in BOOLEAN :
          LET symbol_data == fetch_historical_data(sm, now.day, sf)
              ref_data == fetch_historical_data(rm, now.day, rf)
              c == [call EXCEPT !.symbol_data = symbol_data, !.ref_data = ref_data,
                                !.fetched = TRUE]
          IN call' = IF symbol_data = <<>> \/ ref_data = <<>>
                     THEN Finish(c, "nodata", "False")
                     ELSE [c EXCEPT !.pc = "prev"]
    /\ UNCHANGED <<pool, impl, now, processed_candles, emails, csv_rows, calls, probe, loop>>

\* Previous day high/low and its test (engine 161-164, app 489-492).
PrevDay ==
    /\ call.pc = "prev"
    /\ LET prev == compute_previous_day_high_low(call.symbol_data, now.day)
           c == [call EXCEPT !.prev = prev, !.prev_today = now.day]
       IN call' = IF ~Truthy(prev[1]) \/ ~Truthy(prev[2])
                  THEN Finish(c, "noprev", "False")
                  ELSE [c EXCEPT !.pc = "avwap_high"]
    /\ UNCHANGED <<pool, impl, now, processed_candles, emails, csv_rows, calls, probe, loop>>

\* AVWAP from the high anchor (engine 167, app 495).
AvwapHigh ==
    /\ call.pc = "avwap_high"
    /\ call' = [call EXCEPT !.pc = "avwap_low",
                   !.avwap_high = compute_avwap_from_anchor(call.symbol_data, call.prev[1], "high", now.day)]
    /\ UNCHANGED <<pool, impl, now, processed_candles, emails, csv_rows, calls, probe, loop>>

\* A variant in which the low level is the previous day's low itself.
AvwapLowIsPrevLow ==
    /\ call.pc = "avwap_low"
    /\ LET avwap_low == call.prev[2]
           c == [call EXCEPT !.avwap_low = avwap_low]
       IN call' = IF ~Truthy(call.avwap_high) \/ ~Truthy(avwap_low)
                  THEN Finish(c, "noavwap", "False")
                  ELSE [c EXCEPT !.pc = "pattern"]
    /\ UNCHANGED <<pool, impl, now, processed_candles, emails, csv_rows, calls, probe, loop>>

\* AVWAP from the low anchor and the test of both (engine 168-172, app 496-500).
AvwapLow ==
    /\ call.pc = "avwap_low"
    /\ LET avwap_low == compute_avwap_from_anchor(call.symbol_data, call.prev[2], "low", now.day)
           c == [call EXCEPT !.avwap_low = avwap_low]
       IN call' = IF ~Truthy(call.avwap_high) \/ ~Truthy(avwap_low)
                  THEN Finish(c, "noavwap", "False")
                  ELSE [c EXCEPT !.pc = "pattern"]
    /\ UNCHANGED <<pool, impl, now, processed_candles, emails, csv_rows, calls, probe, loop>>

LatestCandle(df) == df[Len(df)]

\* The pattern of the latest candle and the relative strength (engine 175-184, app 503-512).
PatternAndRs ==
    /\ call.pc = "pattern"
    /\ LET latest_candle == LatestCandle(call.symbol_data)
           ohlc == [open |-> latest_candle.open, high |-> latest_candle.high,
                    low |-> latest_candle.low, close |-> latest_candle.close]
           ref_close == LatestCandle(call.ref_data).close
       IN call' = [call EXCEPT !.pc = "log",
                      !.pattern = IF impl = "engine" THEN detect_pattern(ohlc)
                                  ELSE detect_candlestick_patterns(ohlc),
                      !.rs_value = compute_relative_strength(latest_candle.close, ref_close)]
    /\ UNCHANGED <<pool, impl, now, processed_candles, emails, csv_rows, calls, probe, loop>>

\* The f-string of the log line (engine 186-187, app 514-515).  The engine's field
\* {rs_value:.4f if rs_value else 'N/A'} hands the whole text after the colon to format()
\* as the format spec: ValueError for a float, TypeError for None.  The app's
\* {rs_value:.4f} raises TypeError for None.
EngineLogLineRaises(rs_value) == TRUE
AppLogLineRaises(rs_value) == rs_value.t = "none"

LogLine ==
    /\ call.pc = "log"
    /\ call' = IF (impl = "engine" /\ EngineLogLineRaises(call.rs_value))
                  \/ (impl = "app" /\ AppLogLineRaises(call.rs_value))
               THEN Except(call)
               ELSE [call EXCEPT !.pc = "evaluate"]
    /\ UNCHANGED <<pool, impl, now, processed_candles, emails, csv_rows, calls, probe, loop>>

\* A variant that marks the candle as soon as the signal is decided, before the alert.
EvaluateMarksEarly ==
    /\ call.pc = "evaluate"
    /\ LET close == LatestCandle(call.symbol_data).close
       IN call' = [call EXCEPT !.pc = "alert",
                      !.buy = evaluate_buy_setup(close, call.avwap_high, call.avwap_low,
                                                 call.rs_value, call.pattern),
                      !.sell = evaluate_sell_setup(close, call.avwap_high, call.avwap_low,
                                                   call.rs_value, call.pattern)]
    /\ processed_candles' = processed_candles \cup {call.candle_id}
    /\ UNCHANGED <<pool, impl, now, emails, csv_rows, calls, probe, loop>>

\* BUY and SELL evaluation (engine 190-197, app 518-521).
Evaluate ==
    /\ call.pc = "evaluate"
    /\ LET close == LatestCandle(call.symbol_data).close
           buy == evaluate_buy_setup(close, call.avwap_high, call.avwap_low, call.rs_value, call.pattern)
           sell == evaluate_sell_setup(close, call.avwap_high, call.avwap_low, call.rs_value, call.pattern)
       IN call' = IF buy.raised \/ sell.raised
                  THEN Except(call)
                  ELSE [call EXCEPT !.pc = "alert", !.buy = buy, !.sell = sell]
    /\ UNCHANGED <<pool, impl, now, processed_candles, emails, csv_rows, calls, probe, loop>>

\* One alert as handed to a sink.
\* A variant that labels the alert by comparing the level used with avwap_low first.
AlertRecordLowFirst(c, signal, ev) ==
    LET latest_candle == LatestCandle(c.symbol_data)
    IN [symbol |-> c.symbol_name, signal |-> signal,
        bar |-> <<latest_candle.day, latest_candle.minute>>,
        candle_id |-> c.candle_id,
        avwap_anchor |-> IF Eq(ev.avwap_used, c.avwap_low) THEN "prev_low" ELSE "prev_high",
        pattern |-> c.pattern]

AlertRecord(c, signal, ev) ==
    LET latest_candle == LatestCandle(c.symbol_data)
    IN [symbol |-> c.symbol_name, signal |-> signal,
        bar |-> <<latest_candle.day, latest_candle.minute>>,
        candle_id |-> c.candle_id,
        avwap_anchor |-> IF Eq(ev.avwap_used, c.avwap_high) THEN "prev_high" ELSE "prev_low",
        pattern |-> c.pattern]

\* The alert, if any, to the email sink and then to the CSV log (engine 200-234,
\* app 524-540).  Both sinks catch their own failures: email_ok is whether send_alert
\* returned True, csv_ok whether the row was written.
Alert ==
    /\ call.pc = "alert"
    /\ \E email_ok \in BOOLEAN, csv_ok \in BOOLEAN :
          IF call.buy.is_buy
          THEN /\ emails' = Append(emails, AlertRecord(call, "BUY", call.buy))
               /\ csv_rows' = Append(csv_rows, AlertRecord(call, "BUY", call.buy))
               /\ call' = [call EXCEPT !.pc = "mark", !.alert_generated = TRUE,
                                       !.email_ok = email_ok, !.csv_ok = csv_ok]
          ELSE IF call.sell.is_sell
          THEN /\ emails' = Append(emails, AlertRecord(call, "SELL", call.sell))
               /\ csv_rows' = Append(csv_rows, AlertRecord(call, "SELL", call.sell))
               /\ call' = [call EXCEPT !.pc = "mark", !.alert_generated = TRUE,
                                       !.email_ok = email_ok, !.csv_ok = csv_ok]
          ELSE /\ call' = [call EXCEPT !.pc = "mark"]
               /\ UNCHANGED <<emails, csv_rows>>
    /\ UNCHANGED <<pool, impl, now, processed_candles, calls, probe, loop>>

\* A variant that leaves the key out when a sink failed, so that the alert is tried again.
MarkUnlessFailed ==
    /\ call.pc = "mark"
    /\ processed_candles' = IF call.email_ok /\ call.csv_ok
                            THEN processed_candles \cup {call.candle_id}
                            ELSE processed_candles
    /\ call' = Finish(call, "evaluated", PyBool(call.alert_generated))
    /\ UNCHANGED <<pool, impl, now, emails, csv_rows, calls, probe, loop>>

\* A variant that marks the candle only when an alert was generated.
MarkOnlyAlerts ==
    /\ call.pc = "mark"
    /\ processed_candles' = IF call.alert_generated
                            THEN processed_candles \cup {call.candle_id}
                            ELSE processed_candles
    /\ call' = Finish(call, "evaluated", PyBool(call.alert_generated))
    /\ UNCHANGED <<pool, impl, now, emails, csv_rows, calls, probe, loop>>

\* processed_candles.add(candle_id); return alert_generated (engine 237-239, app 543-545).
Mark ==
    /\ call.pc = "mark"
    /\ processed_candles' = processed_candles \cup {call.candle_id}
    /\ call' = Finish(call, "evaluated", PyBool(call.alert_generated))
    /\ UNCHANGED <<pool, impl, now, emails, csv_rows, calls, probe, loop>>

\* The caller has the result; the next call may start.
Return ==
    /\ call.pc = "done"
    /\ call' = Idle
    /\ UNCHANGED <<pool, impl, now, processed_candles, emails, csv_rows, calls, probe, loop>>

\* cleanup_old_processed_candles (engine 292-301, app 551-561), called by the monitoring
\* loop between calls.
cleanup_old_processed_candles(candles, current_date) ==
    {candle_id \in candles : candle_id[2] = current_date}

Cleanup ==
    /\ call.pc = "idle"
    /\ processed_candles' = cleanup_old_processed_candles(processed_candles, DateStr(now.day))
    /\ UNCHANGED <<pool, impl, now, emails, csv_rows, call, calls, probe, loop>>

\* Time passes, between calls and between any two steps of a call: the next minute, or
\* the next day.
Tick ==
    /\ \/ /\ now.minute < MaxMinute
          /\ now' = [now EXCEPT !.minute = now.minute + 1]
       \/ /\ now.day < LastDay
          /\ now' = [day |-> now.day + 1, minute |-> 0]
    /\ UNCHANGED <<pool, impl, processed_candles, emails, csv_rows, call, calls, probe, loop>>

Next ==
    \/ \E symbol_name \in CallableSymbols : Begin(symbol_name)
    \/ Fetch
    \/ PrevDay
    \/ AvwapHigh
    \/ AvwapLow
    \/ PatternAndRs
    \/ LogLine
    \/ Evaluate
    \/ Alert
    \/ Mark
    \/ Return
    \/ Cleanup
    \/ Tick

Spec == Init /\ [][Next]_vars

CallSpec == InitCall /\ [][Next]_vars

DaySpec == InitDays /\ [][Next]_vars

\* ------------------------------------------- the evaluators on their own
\* Numeric arguments: integer levels from -1 to MaxLevel, a relative strength of either
\* sign or 0, and each of the five pattern values.
Levels == {Num(k) : k \in -1..MaxLevel}
RsValues == {Rat(-1, 2), Num(0), Rat(1, 2)}
Patterns == {"Green_Hammer", "Red_Hammer", "Inverted_Hammer", "Inverted_Green_Hammer", "None"}

InitEval ==
    /\ pool = "eval"
    /\ impl \in {"engine", "app"}
    /\ now = [day |-> 1, minute |-> 0]
    /\ processed_candles = {}
    /\ emails = <<>>
    /\ csv_rows = <<>>
    /\ call = Idle
    /\ calls = 0
    /\ loop = NoLoop
    /\ \E close \in Levels, avwap_high \in Levels, avwap_low \in Levels,
          rs \in RsValues, pattern \in Patterns :
          probe = [NoProbe EXCEPT !.pc = "in", !.close = close, !.avwap_high = avwap_high,
                                  !.avwap_low = avwap_low, !.rs = rs, !.pattern = pattern]

ApplyBuy ==
    /\ probe.pc = "in"
    /\ probe' = [probe EXCEPT !.pc = "out",
                    !.buy = evaluate_buy_setup(probe.close, probe.avwap_high, probe.avwap_low,
                                               probe.rs, probe.pattern)]
    /\ UNCHANGED <<pool, impl, now, processed_candles, emails, csv_rows, call, calls, loop>>

\* The SELL evaluation follows on the same inputs (engine 195-197, app 521).
ApplySell ==
    /\ probe.pc = "out"
    /\ probe' = [probe EXCEPT !.pc = "both",
                    !.sell = evaluate_sell_setup(probe.close, probe.avwap_high, probe.avwap_low,
                                                 probe.rs, probe.pattern)]
    /\ UNCHANGED <<pool, impl, now, processed_candles, emails, csv_rows, call, calls, loop>>

EvalNext == ApplyBuy \/ ApplySell

EvalSpec == InitEval /\ [][EvalNext]_vars

\* ------------------------------------------------------ the monitoring loop
\* main.py run_monitoring_loop / app.py main.  The clock loop.t counts seconds from a
\* 5-minute boundary; the cutoff is MaxBoundaries boundaries later.  The loop is started
\* at any multiple of 10 seconds before the second boundary.
symbols_config == <<"NIFTY", "BANKNIFTY">>
CutoffTime == MaxBoundaries * BoundaryMinutes * 60
is_market_time(t) == t < CutoffTime
is_5min_boundary(t) == (t \div 60) % BoundaryMinutes = 0 /\ t % 60 < BoundarySeconds

InitLoop ==
    /\ pool = "loop"
    /\ probe = NoProbe
    /\ impl \in {"engine", "app"}
    /\ now = [day |-> 1, minute |-> 0]
    /\ processed_candles = {}
    /\ emails = <<>>
    /\ csv_rows = <<>>
    /\ call = Idle
    /\ calls = 0
    /\ \E k \in 0..(BoundaryMinutes * 6 - 1) :
          loop = [NoLoop EXCEPT !.pc = "check", !.t = 10 * k, !.started = 10 * k]

\* A variant of the loop's tests without the cutoff test.
LoopCheckNoCutoff ==
    /\ loop.pc = "check"
    /\ loop.t <= CutoffTime + 60
    /\ loop' = IF is_5min_boundary(loop.t)
               THEN [loop EXCEPT !.pc = "process", !.i = 1, !.boundary = loop.t \div 60]
               ELSE [loop EXCEPT !.pc = "sleep"]
    /\ UNCHANGED <<pool, impl, now, processed_candles, emails, csv_rows, call, calls, probe>>

\* `while True:` the cutoff test, then the boundary test (main 90-97, app 594-601).
LoopCheck ==
    /\ loop.pc = "check"
    /\ loop' = IF ~is_market_time(loop.t) THEN [loop EXCEPT !.pc = "stopped"]
               ELSE IF is_5min_boundary(loop.t)
               THEN [loop EXCEPT !.pc = "process", !.i = 1, !.boundary = loop.t \div 60]
               ELSE [loop EXCEPT !.pc = "sleep"]
    /\ UNCHANGED <<pool, impl, now, processed_candles, emails, csv_rows, call, calls, probe>>

\* One turn of `for symbol_name, ... in symbols_config`: the process_symbol call, which
\* takes up to 10 seconds (main 100-113, app 604-609).
LoopInvoke ==
    /\ loop.pc = "process"
    /\ loop.i <= Len(symbols_config)
    /\ \E took \in {0, 10} :
          loop' = [loop EXCEPT !.i = loop.i + 1, !.t = loop.t + took,
                               !.invoked = Append(loop.invoked,
                                                  <<loop.boundary, symbols_config[loop.i]>>)]
    /\ UNCHANGED <<pool, impl, now, processed_candles, emails, csv_rows, call, calls, probe>>

\* After the symbols: cleanup, then time.sleep(30) (main 115-124, app 611-615).
LoopSleepShort ==
    /\ loop.pc = "process"
    /\ loop.i > Len(symbols_config)
    /\ loop' = [loop EXCEPT !.pc = "check", !.t = loop.t + ShortSleep]
    /\ UNCHANGED <<pool, impl, now, processed_candles, emails, csv_rows, call, calls, probe>>

\* Off a boundary: time.sleep(60) (main 126-128, app 617-619).
LoopSleepLong ==
    /\ loop.pc = "sleep"
    /\ loop' = [loop EXCEPT !.pc = "check", !.t = loop.t + LongSleep]
    /\ UNCHANGED <<pool, impl, now, processed_candles, emails, csv_rows, call, calls, probe>>

\* A variant in which an exception after the symbols leaves the loop.
LoopExceptionEnds ==
    /\ loop.pc = "process"
    /\ loop.i > Len(symbols_config)
    /\ loop' = [loop EXCEPT !.pc = "stopped"]
    /\ UNCHANGED <<pool, impl, now, processed_candles, emails, csv_rows, call, calls, probe>>

\* An exception after the symbols, in the cleanup or the token refresh: `except Exception`
\* logs it and sleeps 60 seconds, and the loop goes on (main 133-135, app 624-626).
LoopException ==
    /\ loop.pc = "process"
    /\ loop.i > Len(symbols_config)
    /\ loop' = [loop EXCEPT !.pc = "check", !.t = loop.t + LongSleep]
    /\ UNCHANGED <<pool, impl, now, processed_candles, emails, csv_rows, call, calls, probe>>

LoopNext == LoopCheck \/ LoopInvoke \/ LoopSleepShort \/ LoopSleepLong \/ LoopException

LoopSpec == InitLoop /\ [][LoopNext]_vars

\* The loop's thread keeps running: a sleep returns and a process_symbol call comes back
\* after a bounded time, so a step that is possible is taken.
LoopLiveSpec == InitLoop /\ [][LoopNext]_vars /\ WF_vars(LoopNext)

\* -------------------------------------------------- the pattern detector alone
\* The fields of a bar handed to the detector: small prices, a missing value (NaN or
\* None) or a str; and the bar of the system test.
PriceValues == {Num(k) : k \in 0..MaxPrice} \cup {NaN, None, Str}
TestBar == [open |-> Num(100), high |-> Num(102), low |-> Num(95), close |-> Num(101)]

InitPattern ==
    /\ pool = "pattern"
    /\ impl \in {"engine", "app"}
    /\ now = [day |-> 1, minute |-> 0]
    /\ processed_candles = {}
    /\ emails = <<>>
    /\ csv_rows = <<>>
    /\ call = Idle
    /\ calls = 0
    /\ loop = NoLoop
    /\ \E ohlc \in [open : PriceValues, high : PriceValues, low : PriceValues,
                     close : PriceValues] \cup {TestBar} :
          probe = [NoProbe EXCEPT !.pc = "bar", !.ohlc = ohlc]

ApplyDetect ==
    /\ probe.pc = "bar"
    /\ probe' = [probe EXCEPT !.pc = "detected",
                    !.detected = IF impl = "engine" THEN detect_pattern(probe.ohlc)
                                 ELSE detect_candlestick_patterns(probe.ohlc)]
    /\ UNCHANGED <<pool, impl, now, processed_candles, emails, csv_rows, call, calls, loop>>

PatternNext == ApplyDetect

PatternSpec == InitPattern /\ [][PatternNext]_vars

\* ------------------------------------------------- relative strength alone
\* The two closes handed to compute_relative_strength: a number or a missing value,
\* NaN in a float column, None otherwise.
CloseValues == {Num(k) : k \in -MaxLevel..MaxLevel} \cup {NaN, None}

InitRs ==
    /\ pool = "rs"
    /\ impl \in {"engine", "app"}
    /\ now = [day |-> 1, minute |-> 0]
    /\ processed_candles = {}
    /\ emails = <<>>
    /\ csv_rows = <<>>
    /\ call = Idle
    /\ calls = 0
    /\ loop = NoLoop
    /\ \E symbol_close \in CloseValues, reference_close \in CloseValues :
          probe = [NoProbe EXCEPT !.pc = "closes", !.close = symbol_close,
                                  !.reference_close = reference_close]

ApplyRs ==
    /\ probe.pc = "closes"
    /\ probe' = [probe EXCEPT !.pc = "rs",
                    !.rs_out = compute_relative_strength(probe.close, probe.reference_close)]
    /\ UNCHANGED <<pool, impl, now, processed_candles, emails, csv_rows, call, calls, loop>>

RsNext == ApplyRs

RsSpec == InitRs /\ [][RsNext]_vars

\* ----------------------------------------------------------- AVWAP alone
\* The series handed to compute_avwap_from_anchor: up to MaxBars bars of yesterday or
\* today, of volume 0, 1 or 2, with typical price 2 or 4 or a non-numeric high.
AvwapBars ==
    {Bar(day, 0, hlc[3], hlc[1], hlc[2], hlc[3], v) :
        day \in {0, 1}, v \in {0, 1, 2},
        hlc \in {<<Num(3), Num(1), Num(2)>>, <<Num(6), Num(3), Num(3)>>, <<Str, Num(1), Num(2)>>}}
AvwapSeries == UNION {[1..n -> AvwapBars] : n \in 0..MaxBars}

InitAvwap ==
    /\ pool = "avwap"
    /\ impl \in {"engine", "app"}
    /\ now = [day |-> 1, minute |-> 0]
    /\ processed_candles = {}
    /\ emails = <<>>
    /\ csv_rows = <<>>
    /\ call = Idle
    /\ calls = 0
    /\ loop = NoLoop
    /\ \E candles_df \in AvwapSeries :
          probe = [NoProbe EXCEPT !.pc = "series", !.candles_df = candles_df]

ApplyAvwap ==
    /\ probe.pc = "series"
    /\ probe' = [probe EXCEPT !.pc = "avwap",
                    !.avwap_out = compute_avwap_from_anchor(probe.candles_df, None, "high", now.day)]
    /\ UNCHANGED <<pool, impl, now, processed_candles, emails, csv_rows, call, calls, loop>>

AvwapNext == ApplyAvwap

AvwapSpec == InitAvwap /\ [][AvwapNext]_vars

\* ------------------------------------------------------------------ claims
Done == call.pc = "done"
AlertsOf(log, candle_id) == {i \in 1..Len(log) : log[i].candle_id = candle_id}
Missing(v) == v.t \in {"nan", "none"}
SymClose(c) == LatestCandle(c.symbol_data).close
RefClose(c) == LatestCandle(c.ref_data).close

\* The call got as far as the signal decision: data fetched, previous-day extremes and
\* both AVWAP levels defined.
Decided(c) ==
    /\ c.symbol_data # <<>> /\ c.ref_data # <<>>
    /\ IsNum(c.prev[1]) /\ IsNum(c.prev[2])
    /\ IsNum(c.avwap_high) /\ IsNum(c.avwap_low)
BuyRule(c) == evaluate_buy_setup(SymClose(c), c.avwap_high, c.avwap_low, c.rs_value, c.pattern).is_buy
SellRule(c) == evaluate_sell_setup(SymClose(c), c.avwap_high, c.avwap_low, c.rs_value, c.pattern).is_sell

\* C1: within one trading day, at most one alert reaches the sink for a given symbol and
\* a given latest-bar timestamp, whatever the wall-clock minutes of the calls.
C1_OneAlertPerBar ==
    \A i, j \in 1..Len(emails) :
        (i # j /\ emails[i].symbol = emails[j].symbol) => emails[i].bar # emails[j].bar

\* C2: a TradingEngine.process_symbol call whose data, extremes, AVWAP and RS are defined
\* and whose BUY (SELL) rule holds hands exactly one alert with that signal to the email
\* sink and to the CSV log and returns True; any other call returns False and hands nothing.
C2_EngineAlertsIffRule ==
    (Done /\ impl = "engine") =>
        IF Decided(call) /\ IsNum(call.rs_value) /\ (BuyRule(call) \/ SellRule(call))
        THEN /\ call.ret = "True"
             /\ Len(emails) = 1 /\ Len(csv_rows) = 1
             /\ emails[1].signal = (IF BuyRule(call) THEN "BUY" ELSE "SELL")
             /\ csv_rows[1].signal = emails[1].signal
        ELSE call.ret = "False" /\ emails = <<>> /\ csv_rows = <<>>

\* C3: a TradingEngine.process_symbol call that reaches the signal decision ends with its
\* candle key in processed_candles, signal or no signal.
C3_EngineMarksEveryDecision ==
    (Done /\ impl = "engine" /\ Decided(call)) => call.candle_id \in processed_candles

\* C4: the key of a call is not in the processed set while the call is being evaluated;
\* a call adds its key only once both evaluations have returned and the alert, if any,
\* is with the email sink and the CSV log.
InProgress == {"fetch", "prev", "avwap_high", "avwap_low", "pattern", "log", "evaluate", "alert", "mark"}
C4_MarkAfterDecision ==
    /\ call.pc \in InProgress => call.candle_id \notin processed_candles
    /\ (call.pc # "idle" /\ call.candle_id \in processed_candles \ call.at_start) =>
           /\ Done /\ call.stage = "evaluated"
           /\ call.alert_generated =>
                  (AlertsOf(emails, call.candle_id) # {} /\ AlertsOf(csv_rows, call.candle_id) # {})
C4_Witness ==
    /\ Done /\ call.stage = "evaluated" /\ call.alert_generated
    /\ call.candle_id \in processed_candles \ call.at_start

\* C5: a call whose candle key is already in the processed set returns False at once: no
\* fetch, no alert, no CSV row, the processed set as it was.
C5_SkipHasNoEffect ==
    [][ (call.pc = "idle" /\ call'.pc # "idle" /\ call'.candle_id \in processed_candles) =>
            /\ call'.pc = "done" /\ call'.ret = "False" /\ ~call'.fetched
            /\ processed_candles' = processed_candles
            /\ emails' = emails /\ csv_rows' = csv_rows ]_vars
C5_Witness == Done /\ call.stage = "skipped" /\ call.candle_id \in processed_candles

\* C6: with an empty symbol or benchmark series, or no symbol bar dated before today, the
\* call returns False, hands no alert and leaves the processed set as it was, its own key
\* not in it, so that the same key is evaluated again.
C6_Case ==
    /\ call.fetched
    /\ \/ call.symbol_data = <<>>
       \/ call.ref_data = <<>>
       \/ call.prev_today # 0 /\ \A b \in Rows(call.symbol_data) : b.day >= call.prev_today
C6_AbortOnMissingData ==
    (Done /\ C6_Case) =>
        /\ call.ret = "False"
        /\ emails = <<>> /\ csv_rows = <<>>
        /\ processed_candles = call.at_start
        /\ call.candle_id \notin processed_candles
C6_Witness ==
    /\ Done /\ call.stage = "noprev"
    /\ \E b \in Rows(call.symbol_data) : b.day = call.prev_today /\ b.volume > 0
    /\ call.ref_data # <<>>

\* C7: when AVWAP is undefined (no bar dated today, or today's volumes all 0) or RS is
\* undefined (benchmark close 0, or a close missing), the call returns False, hands no
\* alert and does not add its key.
C7_Case ==
    /\ call.symbol_data # <<>> /\ call.ref_data # <<>>
    /\ Truthy(call.prev[1]) /\ Truthy(call.prev[2])
    /\ \/ \A b \in Rows(call.symbol_data) : b.day = call.prev_today => b.volume = 0
       \/ Eq(RefClose(call), Num(0))
       \/ Missing(RefClose(call))
       \/ Missing(SymClose(call))
C7_AbortOnUndefinedIndicator ==
    (Done /\ C7_Case) =>
        /\ call.ret = "False"
        /\ emails = <<>> /\ csv_rows = <<>>
        /\ call.candle_id \notin processed_candles

\* C8: process_symbol hands its caller a boolean whatever fails inside it; no exception
\* leaves the function.
C8_ReturnsBoolean == Done => call.ret \in {"True", "False"}
C8_Witness == Done /\ call.stage = "exception" /\ call.ret = "False"

\* C9: with a non-numeric or missing open, high, low or close in the latest bar, the
\* pattern is None and the call runs to completion: no signal, the key marked.
BadLatest(c) ==
    LET b == LatestCandle(c.symbol_data)
    IN \E x \in {b.open, b.high, b.low, b.close} : ~IsNum(x)
C9_BadBarIsEvaluated ==
    (Done /\ call.symbol_data # <<>> /\ BadLatest(call)
          /\ Truthy(call.avwap_high) /\ Truthy(call.avwap_low) /\ call.rs_value # None) =>
        /\ call.pattern = "None"
        /\ call.stage = "evaluated" /\ ~call.alert_generated /\ call.ret = "False"
        /\ call.candle_id \in processed_candles

\* C10: evaluate_buy_setup on numbers.  The level is avwapHigh when close > avwapHigh,
\* otherwise avwapLow when close > avwapLow; BUY iff a level is found, (close - used)/used
\* > 0, rs > 0 and the pattern is a hammer; the level and the measure are returned, or
\* (None, None).  As stated, a level of 0 counts like any other.
C10_Holds(found_high, found_low) ==
    LET close == probe.close.n
        used == IF found_high THEN probe.avwap_high.n ELSE probe.avwap_low.n
        found == found_high \/ found_low
        buy == /\ found
               /\ used # 0 /\ (close - used) * used > 0
               /\ probe.rs.n > 0
               /\ probe.pattern \in {"Green_Hammer", "Red_Hammer"}
    IN /\ probe.buy.is_buy = buy
       /\ IF found
          THEN /\ Eq(probe.buy.avwap_used, Num(used))
               /\ used # 0 => Eq(probe.buy.measure, Rat((close - used) * (IF used > 0 THEN 1 ELSE -1),
                                                        IF used > 0 THEN used ELSE -used))
          ELSE probe.buy.avwap_used = None /\ probe.buy.measure = None

C10_BuyAsStated ==
    probe.pc = "out" =>
        C10_Holds(probe.close.n > probe.avwap_high.n,
                  ~(probe.close.n > probe.avwap_high.n) /\ probe.close.n > probe.avwap_low.n)

\* C10 as amended: a level equal to 0 is passed over as if it were absent.
C10_BuySkipsZeroLevel ==
    probe.pc = "out" =>
        LET found_high == probe.avwap_high.n # 0 /\ probe.close.n > probe.avwap_high.n
        IN C10_Holds(found_high,
                     ~found_high /\ probe.avwap_low.n # 0 /\ probe.close.n > probe.avwap_low.n)
C10_Witness ==
    /\ probe.pc = "out" /\ probe.buy.is_buy
    /\ probe.avwap_high.n = 0 /\ Eq(probe.buy.avwap_used, probe.avwap_low)

\* C11: evaluate_sell_setup on numbers.  The level is avwapHigh when close < avwapHigh,
\* otherwise avwapLow when close < avwapLow; SELL iff a level is found, (used - close)/used
\* > 0, rs < 0 and the pattern is an inverted hammer; the level and the measure are
\* returned, or (None, None).  As stated, a level of 0 counts like any other.
C11_Holds(found_high, found_low) ==
    LET close == probe.close.n
        used == IF found_high THEN probe.avwap_high.n ELSE probe.avwap_low.n
        found == found_high \/ found_low
        sell == /\ found
                /\ used # 0 /\ (used - close) * used > 0
                /\ probe.rs.n < 0
                /\ probe.pattern \in {"Inverted_Hammer", "Inverted_Green_Hammer"}
    IN /\ probe.sell.is_sell = sell
       /\ IF found
          THEN /\ Eq(probe.sell.avwap_used, Num(used))
               /\ used # 0 => Eq(probe.sell.measure, Rat((used - close) * (IF used > 0 THEN 1 ELSE -1),
                                                         IF used > 0 THEN used ELSE -used))
          ELSE probe.sell.avwap_used = None /\ probe.sell.measure = None

C11_SellAsStated ==
    probe.pc = "both" =>
        C11_Holds(probe.close.n < probe.avwap_high.n,
                  ~(probe.close.n < probe.avwap_high.n) /\ probe.close.n < probe.avwap_low.n)

\* C11 as amended: a level equal to 0 is passed over as if it were absent.
C11_SellSkipsZeroLevel ==
    probe.pc = "both" =>
        LET found_high == probe.avwap_high.n # 0 /\ probe.close.n < probe.avwap_high.n
        IN C11_Holds(found_high,
                     ~found_high /\ probe.avwap_low.n # 0 /\ probe.close.n < probe.avwap_low.n)
C11_Witness ==
    /\ probe.pc = "both" /\ probe.sell.is_sell
    /\ probe.avwap_high.n = 0 /\ Eq(probe.sell.avwap_used, probe.avwap_low)

\* C12: the two evaluators never both report a signal on the same inputs, and one
\* process_symbol call delivers at most one alert, the BUY one if BUY was reported.
C12_OneSignalPerCall ==
    /\ calls = 0 =>
           \A close \in Levels, avwap_high \in Levels, avwap_low \in Levels,
              rs \in RsValues, pattern \in Patterns :
              ~ /\ evaluate_buy_setup(close, avwap_high, avwap_low, rs, pattern).is_buy
                /\ evaluate_sell_setup(close, avwap_high, avwap_low, rs, pattern).is_sell
    /\ call.pc \in {"alert", "mark", "done"} => ~(call.buy.is_buy /\ call.sell.is_sell)
    /\ Len(emails) <= 1 /\ Len(csv_rows) <= 1
    /\ (call.pc \in {"mark", "done"} /\ call.stage \in {"", "evaluated"}) =>
           IF call.buy.is_buy
           THEN Len(emails) = 1 /\ emails[1].signal = "BUY" /\ csv_rows = emails
           ELSE IF call.sell.is_sell
           THEN Len(emails) = 1 /\ emails[1].signal = "SELL" /\ csv_rows = emails
           ELSE emails = <<>> /\ csv_rows = <<>>
C12_Witness ==
    /\ Done /\ call.stage = "evaluated" /\ call.buy.is_buy
    /\ Len(emails) = 1 /\ emails[1].signal = "BUY"

\* C13: on a numeric bar the detector returns the first class, in the order Green_Hammer,
\* Red_Hammer, Inverted_Hammer, Inverted_Green_Hammer, whose rule holds, None when no rule
\* holds or a field is not a number; the bar (100, 102, 95, 101) is a Green_Hammer.
C13_Class(o, h, l, c) ==
    IF c > o /\ (o - l) > 2 * (c - o) /\ h >= c /\ (o - l) > (h - c) THEN "Green_Hammer"
    ELSE IF c < o /\ (c - l) > 2 * (o - c) /\ h >= o /\ (c - l) > (h - o) THEN "Red_Hammer"
    ELSE IF c < o /\ (h - o) > 2 * (o - c) /\ l <= c /\ (h - o) > (c - l) THEN "Inverted_Hammer"
    ELSE IF c > o /\ (h - c) > 2 * (c - o) /\ l <= o /\ (h - c) > (o - l)
    THEN "Inverted_Green_Hammer"
    ELSE "None"
NumericBar(b) == IsNum(b.open) /\ IsNum(b.high) /\ IsNum(b.low) /\ IsNum(b.close)
C13_FirstMatchingClass ==
    probe.pc = "detected" =>
        /\ probe.detected =
               IF NumericBar(probe.ohlc)
               THEN C13_Class(probe.ohlc.open.n, probe.ohlc.high.n, probe.ohlc.low.n, probe.ohlc.close.n)
               ELSE "None"
        /\ probe.ohlc = TestBar => probe.detected = "Green_Hammer"
C13_Witness == probe.pc = "detected" /\ probe.ohlc = TestBar /\ probe.detected = "Green_Hammer"

\* C14: on a numeric bar at most one of the four rules holds, so the class does not
\* depend on the order in which the rules are tested.
RulesHolding(b) ==
    {r \in {"Green_Hammer", "Red_Hammer", "Inverted_Hammer", "Inverted_Green_Hammer"} :
        CASE r = "Green_Hammer" -> GreenHammerRule(b.open, b.high, b.low, b.close)
          [] r = "Red_Hammer" -> RedHammerRule(b.open, b.high, b.low, b.close)
          [] r = "Inverted_Hammer" -> InvertedHammerRule(b.open, b.high, b.low, b.close)
          [] OTHER -> InvertedGreenHammerRule(b.open, b.high, b.low, b.close)}
C14_RulesExclusive ==
    (probe.pc = "detected" /\ NumericBar(probe.ohlc)) =>
        /\ Cardinality(RulesHolding(probe.ohlc)) <= 1
        /\ RulesHolding(probe.ohlc) = {probe.detected} \ {"None"}
C14_Witness ==
    /\ probe.pc = "detected" /\ NumericBar(probe.ohlc)
    /\ RulesHolding(probe.ohlc) = {"Inverted_Green_Hammer"}

\* C15: compute_relative_strength returns symbolClose / referenceClose - 1 for two
\* present values with referenceClose # 0, and None exactly when referenceClose = 0 or
\* one of the two is missing.
C15_RsAsStated ==
    probe.pc = "rs" =>
        LET sc == probe.close
            rc == probe.reference_close
        IN IF IsNum(sc) /\ IsNum(rc) /\ rc.n # 0
           THEN Eq(probe.rs_out, Rat((sc.n - rc.n) * (IF rc.n > 0 THEN 1 ELSE -1),
                                     IF rc.n > 0 THEN rc.n ELSE -rc.n))
           ELSE probe.rs_out = None

\* C16: a value returned for referenceClose > 0 is > 0 iff symbolClose > referenceClose
\* and < 0 iff symbolClose < referenceClose.
C16_RsSign ==
    (probe.pc = "rs" /\ probe.rs_out # None /\ Gt(probe.reference_close, Num(0))) =>
        /\ Gt(probe.rs_out, Num(0)) <=> Gt(probe.close, probe.reference_close)
        /\ Lt(probe.rs_out, Num(0)) <=> Lt(probe.close, probe.reference_close)
C16_Witness ==
    /\ probe.pc = "rs" /\ Gt(probe.reference_close, Num(0))
    /\ Gt(probe.close, probe.reference_close) /\ Gt(probe.rs_out, Num(0))

\* C17: the AVWAP is the sum over today's bars of (high+low+close)/3 * volume divided by
\* the sum of their volumes, whatever the bars of earlier days; with exactly one of
\* today's bars of non-zero volume it is that bar's typical price.
TodayBars(df, today) == {i \in 1..Len(df) : df[i].day = today}
RECURSIVE SumOver(_, _)
SumOver(I, f) ==
    IF I = {} THEN 0
    ELSE LET i == CHOOSE i \in I : TRUE IN f[i] + SumOver(I \ {i}, f)
C17_AvwapIsVolumeWeightedMean ==
    LET df == probe.candles_df
        I == TodayBars(df, now.day)
        traded == {i \in I : df[i].volume # 0}
        pv == [i \in I |-> (df[i].high.n + df[i].low.n + df[i].close.n) * df[i].volume]
        vol == [i \in I |-> df[i].volume]
    IN (/\ probe.pc = "avwap"
        /\ \A i \in I : IsNum(df[i].high) /\ IsNum(df[i].low) /\ IsNum(df[i].close)
        /\ SumOver(I, vol) > 0) =>
           /\ Eq(probe.avwap_out, Rat(SumOver(I, pv), 3 * SumOver(I, vol)))
           /\ \A i \in I : traded = {i} =>
                  Eq(probe.avwap_out, Rat(df[i].high.n + df[i].low.n + df[i].close.n, 3))
C17_Witness ==
    LET df == probe.candles_df
    IN /\ probe.pc = "avwap" /\ Len(df) = 3
       /\ df[1].day = 0 /\ df[1].volume = 2 /\ Eq(df[1].high, Num(6))
       /\ df[2].day = 1 /\ df[2].volume = 1 /\ Eq(df[2].high, Num(3))
       /\ df[3].day = 1 /\ df[3].volume = 2 /\ Eq(df[3].high, Num(6))
       /\ Eq(probe.avwap_out, Rat(10, 3))

\* C18: for an empty series, a series without a bar of today, or today's bars of
\* cumulative volume 0, the AVWAP is None: not 0, and no exception.
C18_AvwapUndefined ==
    LET df == probe.candles_df
        I == TodayBars(df, now.day)
    IN (probe.pc = "avwap" /\ (df = <<>> \/ I = {} \/ \A i \in I : df[i].volume = 0)) =>
           probe.avwap_out = None
C18_Witness ==
    LET df == probe.candles_df
        I == TodayBars(df, now.day)
    IN /\ probe.pc = "avwap" /\ Cardinality(I) >= 2
       /\ \A i \in I : df[i].volume = 0 /\ IsNum(df[i].high)
       /\ probe.avwap_out = None

\* C19: cleanup removes exactly the keys whose date part is not the current date and
\* keeps every key of the current date, whatever the symbol name; a key of the next day
\* is not blocked by the key of the same symbol and minute of the day before.
DatePart(candle_id) == candle_id[Len(candle_id) - 1]
C19_CleanupKeepsToday ==
    [][ /\ (call.pc = "idle" /\ call'.pc = "idle" /\ now' = now) =>
               processed_candles' =
                   {k \in processed_candles : DatePart(k) = DateStr(now.day)}
        /\ (call.pc = "idle" /\ call'.pc # "idle"
              /\ call'.candle_id \notin processed_candles) => call'.stage # "skipped" ]_vars

\* C20: before the cutoff, each 5-minute boundary that the running loop has lived
\* through saw exactly one process_symbol call for NIFTY and one for BANKNIFTY, whatever
\* second the loop was started at and whatever it processed before.
InvocationsAt(minute, symbol_name) ==
    {j \in 1..Len(loop.invoked) : loop.invoked[j] = <<minute, symbol_name>>}
C20_EveryBoundaryOnce ==
    \A k \in 0..(MaxBoundaries - 1) :
        LET boundary == k * BoundaryMinutes
        IN (/\ loop.pc = "check"
            /\ loop.started <= boundary * 60
            /\ loop.t >= (boundary + 1) * 60) =>
               \A symbol_name \in {"NIFTY", "BANKNIFTY"} :
                   Cardinality(InvocationsAt(boundary, symbol_name)) = 1

\* C21: process_symbol is called only in an iteration whose clock reading was strictly
\* before the cutoff; an iteration that reads the cutoff or later starts no evaluation.
C21_NoCallAfterCutoff ==
    /\ loop.pc = "process" => loop.boundary * 60 < CutoffTime
    /\ \A j \in 1..Len(loop.invoked) : loop.invoked[j][1] * 60 < CutoffTime
    /\ loop.pc = "stopped" => loop.t >= CutoffTime
C21_Witness ==
    /\ loop.pc = "stopped"
    /\ \E j \in 1..Len(loop.invoked) :
          loop.invoked[j][1] = (MaxBoundaries - 1) * BoundaryMinutes

\* C22: when the email sink or the CSV log fails on an alert, the call still adds its
\* key and returns True, the alert was handed over once, and no later call for the same
\* key hands it over again.
C22_NoRetryAfterSinkFailure ==
    /\ (Done /\ call.alert_generated /\ ~(call.email_ok /\ call.csv_ok)) =>
           /\ call.ret = "True"
           /\ call.candle_id \in processed_candles
    /\ \A i \in 1..Len(emails) :
           /\ Cardinality(AlertsOf(emails, emails[i].candle_id)) = 1
           /\ Cardinality(AlertsOf(csv_rows, emails[i].candle_id)) = 1
C22_Witness ==
    /\ Done /\ call.alert_generated /\ ~call.email_ok /\ ~call.csv_ok
    /\ call.ret = "True" /\ call.candle_id \in processed_candles

\* C23: on the same series and the same clock reading the AVWAP is the same for every
\* anchor_price and anchor_type.
AnchorPrices == {None, Num(1), Num(6)}
C23_AnchorIsIgnored ==
    probe.pc = "avwap" =>
        \A anchor_price \in AnchorPrices, anchor_type \in {"high", "low"} :
            compute_avwap_from_anchor(probe.candles_df, anchor_price, anchor_type, now.day)
                = probe.avwap_out
C23_Witness ==
    /\ probe.pc = "avwap" /\ IsNum(probe.avwap_out)
    /\ compute_avwap_from_anchor(probe.candles_df, Num(6), "low", now.day) = probe.avwap_out
    /\ compute_avwap_from_anchor(probe.candles_df, Num(1), "high", now.day) = probe.avwap_out

\* C24: the anchor label of an alert is "prev_high" exactly when the level used by the
\* rule that fired equals avwap_high, and "prev_low" otherwise.
FiredLevel(c) == IF c.buy.is_buy THEN c.buy.avwap_used ELSE c.sell.avwap_used
C24_AnchorLabel ==
    (call.pc \in {"mark", "done"} /\ call.alert_generated) =>
        LET label == IF Eq(FiredLevel(call), call.avwap_high) THEN "prev_high" ELSE "prev_low"
        IN /\ emails[Len(emails)].avwap_anchor = label
           /\ csv_rows[Len(csv_rows)].avwap_anchor = label
C24_Witness ==
    /\ Done /\ call.alert_generated /\ call.sell.is_sell
    /\ emails[Len(emails)].avwap_anchor = "prev_high"

\* C25: within one call, the date of the dedup key and the date used to select the
\* previous day's bars come from one reading of the clock, so they are the same date.
\* The code reads the clock anew in process_symbol (engine 136), in each fetch
\* (zerodha_service 77-78), in compute_previous_day_high_low (indicators 31) and in each
\* compute_avwap_from_anchor (indicators 76).
PastPrevDay == {"avwap_high", "avwap_low", "pattern", "log", "evaluate", "alert", "mark"}
C25_OneClockReading ==
    (call.pc \in PastPrevDay \/ (Done /\ call.stage \notin {"skipped", "nodata"})) =>
        DatePart(call.candle_id) = DateStr(call.prev_today)

\* C26: a call never adds, removes or tests a dedup key of another symbol: the keys of
\* the other symbols are those found at the start of the call, the key tested and added
\* is the call's own symbol's, and the call is skipped exactly when that key was present.
KeySymbol(candle_id) == SubSeq(candle_id, 1, Len(candle_id) - 2)
OthersKeys(candles, symbol_name) ==
    {k \in candles : KeySymbol(k) # SplitUnderscore(symbol_name)}
C26_SymbolsAreIndependent ==
    call.pc # "idle" =>
        /\ OthersKeys(processed_candles, call.symbol_name) = OthersKeys(call.at_start, call.symbol_name)
        /\ KeySymbol(call.candle_id) = SplitUnderscore(call.symbol_name)
        /\ (call.stage = "skipped") <=> (call.candle_id \in call.at_start)
C26_Witness ==
    /\ Done /\ call.stage = "evaluated" /\ call.candle_id \in processed_candles
    /\ \E k \in call.at_start : /\ KeySymbol(k) # SplitUnderscore(call.symbol_name)
                                /\ SubSeq(k, Len(k) - 1, Len(k)) =
                                       SubSeq(call.candle_id, Len(call.candle_id) - 1, Len(call.candle_id))

\* C27: in app.py, for each symbol and each wall-clock minute at most one evaluation runs
\* to completion and at most one alert is delivered: an evaluation completes only for a
\* key that is not yet marked, it marks the key, at most one alert carries the key, and a
\* key of the current date is never taken out of the set.
C27_OncePerMinute ==
    [][ impl = "app" =>
          /\ (call.pc = "mark" /\ call'.pc = "done") =>
                 /\ call.candle_id \notin processed_candles
                 /\ call.candle_id \in processed_candles'
                 /\ Cardinality(AlertsOf(emails', call.candle_id)) <= 1
                 /\ Cardinality(AlertsOf(csv_rows', call.candle_id)) <= 1
          /\ \A k \in processed_candles :
                 DatePart(k) = DateStr(now'.day) => k \in processed_candles' ]_vars
C27_Witness ==
    /\ impl = "app" /\ Done /\ call.stage = "skipped"
    /\ Cardinality(AlertsOf(emails, call.candle_id)) = 1
    /\ calls = MaxCalls

\* C28 as stated: once both AVWAP levels of a call are computed they are the same value,
\* and every alert carries the label "prev_high".
AfterAvwapTest == {"pattern", "log", "evaluate", "alert", "mark"}
AllPrevHigh ==
    /\ \A i \in 1..Len(emails) : emails[i].avwap_anchor = "prev_high"
    /\ \A i \in 1..Len(csv_rows) : csv_rows[i].avwap_anchor = "prev_high"
WeekendMarkets(t, m) ==
    {sm \in SymbolMarket("shapes", t, m) : \A b \in sm : b.day \notin {t - 1, t - 2}}
WouldBuy(c, today) ==
    LET latest_candle == LatestCandle(c.symbol_data)
        ohlc == [open |-> latest_candle.open, high |-> latest_candle.high,
                 low |-> latest_candle.low, close |-> latest_candle.close]
        avwap == compute_avwap_from_anchor(c.symbol_data, None, "high", today)
        rs_value == compute_relative_strength(latest_candle.close, RefClose(c))
    IN evaluate_buy_setup(latest_candle.close, avwap, avwap, rs_value,
                          detect_candlestick_patterns(ohlc)).is_buy
C29_NoPreviousDayAfterGap ==
    /\ call.pc = "fetch" =>
           \A sm \in WeekendMarkets(now.day, now.minute) :
               compute_previous_day_high_low(fetch_historical_data(sm, now.day, FALSE), now.day)
                   = <<None, None>>
    /\ (call.prev_today # 0 /\ \A b \in Rows(call.symbol_data) : b.day >= call.prev_today) =>
           /\ Done /\ call.stage = "noprev" /\ call.ret = "False"
           /\ ~call.alert_generated /\ emails = <<>> /\ csv_rows = <<>>
           /\ call.candle_id \notin processed_candles
C29_Witness ==
    /\ Done /\ call.stage = "noprev" /\ call.ret = "False"
    /\ \E sm \in WeekendMarkets(call.prev_today, MaxMinute) :
           /\ PrevBar(call.prev_today - 3) \in sm
           /\ fetch_historical_data(sm, call.prev_today, FALSE) = call.symbol_data
    /\ WouldBuy(call, call.prev_today)
    /\ emails = <<>> /\ processed_candles = {}

\* C30: the monitoring loop terminates once the clock reaches the cutoff: it stops
\* eventually, an exception inside an iteration does not stop it before the cutoff, and it
\* stops at the first clock reading at or after the cutoff, at most one iteration (the
\* calls and a sleep of up to 60 seconds) later, with no symbol processed at that reading.
MaxIteration == Len(symbols_config) * 10 + LongSleep
C30_LoopTerminates ==
    /\ <>(loop.pc = "stopped")
    /\ [](loop.pc = "stopped" =>
              /\ CutoffTime <= loop.t /\ loop.t < CutoffTime + MaxIteration
              /\ \A j \in 1..Len(loop.invoked) : loop.invoked[j][1] * 60 < CutoffTime)
C30_Witness ==
    /\ loop.pc = "stopped" /\ loop.t > CutoffTime
    /\ loop.started < CutoffTime
    /\ Len(loop.invoked) >= 2

====
